---------------------------- MODULE Spec2Model ----------------------------
(***************************************************************************)
(* typst-mutilate: replaces every word of a typst document by garbage of   *)
(* the same shape.  The model follows src/main.rs: main, build_context,    *)
(* mutilate (the tree walker), write_node, mutilate_text (the tokenizer)   *)
(* and mutilate_word.                                                      *)
(*                                                                         *)
(* A string is a sequence of characters; a character is a one-element      *)
(* name.  Characters outside ASCII, and the backtick (U+0060), are named by *)
(* their code point, and                                                   *)
(* ByteLen gives every character its UTF-8 width, so that the byte slices  *)
(* of the source (&text[2..len - 2]) are byte slices in the model too.     *)
(* An Option is a sequence of length 0 (None) or 1 (Some).                 *)
(***************************************************************************)
EXTENDS Integers, Sequences, FiniteSets, TLC

(***************************************************************************)
(* Bounds of the model.                                                    *)
(***************************************************************************)
\* rand's choose() may return any index of the slice; the model follows the
\* first MaxDraw indices and the last one.
MaxDraw == 1

(***************************************************************************)
(* Characters and strings.                                                 *)
(***************************************************************************)
None == <<>>
Some(x) == <<x>>

Range(s) == {s[i] : i \in DOMAIN s}

CHARSET_TEXT ==
    <<"a", "b", "c", "d", "e", "f", "g", "h", "i", "j", "k", "l", "m", "n", "o", "p", "q", "r", "s",
      "t", "u", "v", "w", "x", "y", "z", "A", "B", "C", "D", "E", "F", "G", "H", "I", "J", "K", "L",
      "M", "N", "O", "P", "Q", "R", "S", "T", "U", "V", "W", "X", "Y", "Z">>

CHARSET_DIGITS == <<"0", "1", "2", "3", "4", "5", "6", "7", "8", "9">>

MINIMUM_WORD_COUNT == 16

U8_MAX == 255

\* U+00E9 (e acute) is a letter of two bytes, U+00BD (one half) a numeric
\* character of two bytes that is no decimal digit, U+20AC (euro sign) a
\* symbol of three bytes.
ByteLen(c) ==
    CASE c = "U+00E9" -> 2
      [] c = "U+00BD" -> 2
      [] c = "U+20AC" -> 3
      [] OTHER -> 1

\* char::is_alphabetic
IsAlphabetic(c) == c \in Range(CHARSET_TEXT) \cup {"U+00E9"}

\* char::is_numeric: the Unicode categories Nd, Nl and No
IsNumeric(c) == c \in Range(CHARSET_DIGITS) \cup {"U+00BD"}

\* char::is_alphanumeric
IsAlphanumeric(c) == IsAlphabetic(c) \/ IsNumeric(c)

\* a split closure that takes the digits for separators
IsSplit_Alphabetic(c) == ~IsAlphabetic(c)

\* the closure split of mutilate_text: |c: char| !c.is_alphanumeric()
IsSplit(c) == ~IsAlphanumeric(c)

\* char::is_whitespace
IsWhitespace(c) == c \in {" ", "\n", "\r", "\t"}

RECURSIVE StrLen(_)
\* str::len: the length in bytes
StrLen(s) == IF s = <<>> THEN 0 ELSE ByteLen(Head(s)) + StrLen(Tail(s))

\* str::chars().count()
CharsCount(s) == Len(s)

\* the byte offsets at which a character of s starts or s ends
Boundaries(s) == {StrLen(SubSeq(s, 1, k)) : k \in 0..Len(s)}

\* the number of characters of s before the byte offset b, a boundary of s
CharsBefore(s, b) == CHOOSE k \in 0..Len(s) : StrLen(SubSeq(s, 1, k)) = b

\* &s[from..to]: None stands for the panic of a slice that is out of range,
\* has its start after its end or cuts a character
ByteSlice(s, from, to) ==
    IF from >= 0 /\ from <= to /\ to <= StrLen(s)
       /\ from \in Boundaries(s) /\ to \in Boundaries(s)
    THEN Some(SubSeq(s, CharsBefore(s, from) + 1, CharsBefore(s, to)))
    ELSE None

StartsWith(s, p) == Len(p) <= Len(s) /\ SubSeq(s, 1, Len(p)) = p

EndsWith(s, p) == Len(p) <= Len(s) /\ SubSeq(s, Len(s) - Len(p) + 1, Len(s)) = p

\* str::strip_prefix
StripPrefix(s, p) == IF StartsWith(s, p) THEN Some(SubSeq(s, Len(p) + 1, Len(s))) ELSE None

\* str::strip_suffix
StripSuffix(s, p) == IF EndsWith(s, p) THEN Some(SubSeq(s, 1, Len(s) - Len(p))) ELSE None

RECURSIVE TrimEnd(_)
\* str::trim_end
TrimEnd(s) ==
    IF s # <<>> /\ IsWhitespace(s[Len(s)]) THEN TrimEnd(SubSeq(s, 1, Len(s) - 1)) ELSE s

RECURSIVE TrimStartSplit(_)
\* remaining.trim_start_matches(split)
TrimStartSplit(s) == IF s # <<>> /\ IsSplit(Head(s)) THEN TrimStartSplit(Tail(s)) ELSE s

RECURSIVE TrimStartBackticks(_)
\* text.trim_start_matches(backtick)
TrimStartBackticks(s) ==
    IF s # <<>> /\ Head(s) = "U+0060" THEN TrimStartBackticks(Tail(s)) ELSE s

RECURSIVE SplitSplit(_)
\* next_remaining.split(split): the pieces between the split characters
SplitSplit(s) ==
    IF s = <<>> THEN <<<<>>>>
    ELSE IF IsSplit(Head(s)) THEN <<<<>>>> \o SplitSplit(Tail(s))
    ELSE LET rest == SplitSplit(Tail(s))
         IN  <<<<Head(s)>> \o Head(rest)>> \o Tail(rest)

RECURSIVE FindNonEmpty(_)
\* .find(|s| !s.is_empty())
FindNonEmpty(pieces) ==
    IF pieces = <<>> THEN None
    ELSE IF Head(pieces) # <<>> THEN Some(Head(pieces))
    ELSE FindNonEmpty(Tail(pieces))

RECURSIVE Concat(_)
Concat(ss) == IF ss = <<>> THEN <<>> ELSE Head(ss) \o Concat(Tail(ss))

RECURSIVE Repeat(_, _)
Repeat(x, n) == IF n = 0 THEN <<>> ELSE <<x>> \o Repeat(x, n - 1)

(***************************************************************************)
(* The hyphenator (the crate hypher).  hyphenate(word, language) cuts a    *)
(* word into syllables; the program uses nothing of it but that it is a    *)
(* function of the word and the language.  The model breaks a word, in    *)
(* English, before a consonant that follows a vowel and, in German, before *)
(* a vowel that follows a consonant.                                       *)
(***************************************************************************)
English == <<"e", "n">>
German == <<"d", "e">>

\* Lang::from_iso
LangFromIso(code) == IF code \in {English, German} THEN Some(code) ELSE None

IsVowel(c) == c \in {"a", "e", "i", "o", "u"}

BreakBefore(word, language, i) ==
    IF language = English
    THEN IsVowel(word[i - 1]) /\ ~IsVowel(word[i])
    ELSE ~IsVowel(word[i - 1]) /\ IsVowel(word[i])

RECURSIVE HyphenateFrom(_, _, _)
HyphenateFrom(word, language, i) ==
    IF i > Len(word) THEN <<>>
    ELSE LET stops == {j \in (i + 1)..Len(word) : BreakBefore(word, language, j)}
             stop == IF stops = {} THEN Len(word) + 1
                     ELSE CHOOSE j \in stops : \A k \in stops : j <= k
         IN  <<SubSeq(word, i, stop - 1)>> \o HyphenateFrom(word, language, stop)

\* hypher::hyphenate: the syllables of the word, in order
Hyphenate(word, language) == HyphenateFrom(word, language, 1)

\* syllable.chars().count().try_into().unwrap_or(u8::MAX)
SyllableCount(syllable) ==
    IF CharsCount(syllable) <= U8_MAX THEN CharsCount(syllable) ELSE U8_MAX

\* the hyphenation pattern of a word: the clamped length of each syllable
Hyphenation(word, language) ==
    LET syllables == Hyphenate(word, language)
    IN  [k \in DOMAIN syllables |-> SyllableCount(syllables[k])]

(***************************************************************************)
(* build_context: the index of the wordlist.                               *)
(***************************************************************************)
EmptyMap == [k \in {} |-> <<>>]

\* map.entry(key).or_default().push(word)
Push(map, key, word) ==
    [k \in DOMAIN map \cup {key} |->
        IF k = key
        THEN (IF key \in DOMAIN map THEN map[key] ELSE <<>>) \o <<word>>
        ELSE map[k]]

\* the line indexed as it was read, its ending not trimmed
IndexLine_Untrimmed(index, line, language) ==
    [by_length |-> Push(index.by_length, CharsCount(line), line),
     by_hyphenation |-> Push(index.by_hyphenation, Hyphenation(line, language), line)]

\* one iteration of the while loop over the lines of the wordlist
IndexLine(index, line, language) ==
    LET word == TrimEnd(line)
    IN  [by_length |-> Push(index.by_length, CharsCount(word), word),
         by_hyphenation |-> Push(index.by_hyphenation, Hyphenation(word, language), word)]

RECURSIVE IndexLines(_, _, _)
\* the while loop: the lines in the order of the file
IndexLines(index, lines, language) ==
    IF lines = <<>> THEN index
    ELSE IndexLines(IndexLine(index, Head(lines), language), Tail(lines), language)

EmptyIndex == [by_length |-> EmptyMap, by_hyphenation |-> EmptyMap]

NewContext(aggressive, language, index) ==
    [aggressive |-> aggressive,
     language |-> language,
     by_length |-> index.by_length,
     by_hyphenation |-> index.by_hyphenation]

(***************************************************************************)
(* mutilate_word.  The generator is an input: choose() may return any      *)
(* element, so the word mutilator is the set of its possible outcomes,     *)
(* each with the output it writes, the branch that wrote it and the number *)
(* of draws it made.                                                       *)
(***************************************************************************)
\* the indices slice.choose(&mut context.rng) is followed through
DrawIndices(n) == {i \in 1..n : i <= MaxDraw \/ i = n}

\* slice.choose(&mut context.rng)
Choose(slice) == {slice[i] : i \in DrawIndices(Len(slice))}

\* word.chars().all(|c| c.is_numeric())
AllNumeric(word) == \A i \in DOMAIN word : IsNumeric(word[i])

\* a bucket that holds any word at all
BucketUsable_NonEmpty(words) == Len(words) >= 1

\* words.len() >= MINIMUM_WORD_COUNT
BucketUsable(words) == Len(words) >= MINIMUM_WORD_COUNT

\* the length in bytes
WordLength_Bytes(word) == StrLen(word)

\* let length = word.chars().count()
WordLength(word) == CharsCount(word)

\* one digit for each character of the number
DigitBranch_PerChar(word) ==
    {[repl |-> [k \in 1..Len(word) |-> f[k]], branch |-> "digit", draws |-> Len(word)] :
        f \in [1..Len(word) -> Choose(CHARSET_DIGITS)]}

\* the branch of a numeric word: one digit
DigitBranch(word) ==
    {[repl |-> <<digit>>, branch |-> "digit", draws |-> 1] : digit \in Choose(CHARSET_DIGITS)}

\* a word drawn from a bucket
BucketBranch(words, branch) ==
    {[repl |-> word, branch |-> branch, draws |-> 1] : word \in Choose(words)}

\* for _ in 0..length: one letter of CHARSET_TEXT each
SyntheticBranch(length) ==
    {[repl |-> [k \in 1..length |-> f[k]], branch |-> "synthetic", draws |-> length] :
        f \in [1..length -> Choose(CHARSET_TEXT)]}

MutilateWord(word, context) ==
    LET length == WordLength(word)
        hyphenation == Hyphenation(word, context.language)
    IN  IF AllNumeric(word) THEN DigitBranch(word)
        ELSE IF /\ hyphenation \in DOMAIN context.by_hyphenation
                /\ BucketUsable(context.by_hyphenation[hyphenation])
        THEN BucketBranch(context.by_hyphenation[hyphenation], "hyphenation")
        ELSE IF /\ length \in DOMAIN context.by_length
                /\ BucketUsable(context.by_length[length])
        THEN BucketBranch(context.by_length[length], "length")
        ELSE SyntheticBranch(length)

(***************************************************************************)
(* The syntax tree (typst_syntax::SyntaxNode).  A node has a kind and      *)
(* either children or a text of its own.                                   *)
(***************************************************************************)
Leaf(kind, text) == [kind |-> kind, text |-> text, children |-> <<>>]
Inner(kind, children) == [kind |-> kind, text |-> <<>>, children |-> children]

RECURSIVE SourceText(_)
\* the source text a tree was parsed from: the texts of its leaves, in order
SourceText(node) ==
    IF node.children # <<>>
    THEN Concat([i \in DOMAIN node.children |-> SourceText(node.children[i])])
    ELSE node.text

(***************************************************************************)
(* The documents: each is the tree typst_syntax::parse returns for its     *)
(* source text.  A parse diagnostic is a node of kind Error.               *)
(***************************************************************************)
\* ba, 12.
DocWords ==
    Inner("Markup", <<Leaf("Text", <<"b", "a", ",">>),
        Leaf("Space", <<" ">>),
        Leaf("Text", <<"1", "2", ".">>)>>)

\* ab ½ é  (a word of a numeric character that is no digit, a word with a letter outside ASCII)
DocScripts ==
    Inner("Markup", <<Leaf("Text", <<"a", "b">>),
        Leaf("Space", <<" ">>),
        Leaf("Text", <<"U+00BD">>),
        Leaf("Space", <<" ">>),
        Leaf("Text", <<"U+00E9">>)>>)

\* a1 ?  (a word of letters and digits, a text of separators alone)
DocMixed ==
    Inner("Markup", <<Leaf("Text", <<"a", "1">>),
        Leaf("Space", <<" ">>),
        Leaf("Text", <<"?">>)>>)

\* the empty document
DocEmpty ==
    Leaf("Markup", <<>>)

\* // ab 1
DocLineComment ==
    Inner("Markup", <<Leaf("LineComment", <<"/", "/", " ", "a", "b", " ", "1">>)>>)

\* //
DocLineCommentEmpty ==
    Inner("Markup", <<Leaf("LineComment", <<"/", "/">>)>>)

\* /* ab */
DocBlockComment ==
    Inner("Markup", <<Leaf("BlockComment", <<"/", "*", " ", "a", "b", " ", "*", "/">>)>>)

\* /**/
DocBlockCommentEmpty ==
    Inner("Markup", <<Leaf("BlockComment", <<"/", "*", "*", "/">>)>>)

\* /*a/*b*/c*/
DocBlockCommentNested ==
    Inner("Markup", <<Leaf("BlockComment", <<"/", "*", "a", "/", "*", "b", "*", "/", "c", "*", "/">>)>>)

\* /* ab  (never closed: the lexer ends the comment at the end of the input)
DocBlockCommentOpen ==
    Inner("Markup", <<Leaf("BlockComment", <<"/", "*", " ", "a", "b">>)>>)

\* /*a
DocBlockCommentOpenShort ==
    Inner("Markup", <<Leaf("BlockComment", <<"/", "*", "a">>)>>)

\* /*a€  (never closed, ending in a character of three bytes)
DocBlockCommentOpenWide ==
    Inner("Markup", <<Leaf("BlockComment", <<"/", "*", "a", "U+20AC">>)>>)

\* `ab 1`
DocRawInline ==
    Inner("Markup", <<Leaf("Raw", <<"U+0060", "a", "b", " ", "1", "U+0060">>)>>)

\* ```py\nab\n```  (an identifier right after the fence is the language tag)
DocRawBlock ==
    Inner("Markup", <<Leaf("Raw", <<"U+0060", "U+0060", "U+0060", "p", "y", "\n", "a", "b", "\n", "U+0060", "U+0060", "U+0060">>)>>)

\* ``` ab```
DocRawBlockNoLang ==
    Inner("Markup", <<Leaf("Raw", <<"U+0060", "U+0060", "U+0060", " ", "a", "b", "U+0060", "U+0060", "U+0060">>)>>)

\* ````ab c````
DocRawLong ==
    Inner("Markup", <<Leaf("Raw", <<"U+0060", "U+0060", "U+0060", "U+0060", "a", "b", " ", "c", "U+0060", "U+0060", "U+0060", "U+0060">>)>>)

\* two backticks: the lexer's raw text with an empty body
DocRawEmpty ==
    Inner("Markup", <<Leaf("Raw", <<"U+0060", "U+0060">>)>>)

\* #f("ab 1")
DocStr ==
    Inner("Markup", <<Leaf("Hash", <<"#">>),
        Inner("FuncCall", <<Leaf("Ident", <<"f">>), Inner("Args", <<Leaf("LeftParen", <<"(">>), Leaf("Str", <<"\"", "a", "b", " ", "1", "\"">>), Leaf("RightParen", <<")">>)>>)>>)>>)

\* #f("")
DocStrEmpty ==
    Inner("Markup", <<Leaf("Hash", <<"#">>),
        Inner("FuncCall", <<Leaf("Ident", <<"f">>), Inner("Args", <<Leaf("LeftParen", <<"(">>), Leaf("Str", <<"\"", "\"">>), Leaf("RightParen", <<")">>)>>)>>)>>)

\* #import "ab.typ": bab
DocImport ==
    Inner("Markup", <<Leaf("Hash", <<"#">>),
        Inner("ModuleImport", <<Leaf("Import", <<"i", "m", "p", "o", "r", "t">>), Leaf("Space", <<" ">>), Leaf("Str", <<"\"", "a", "b", ".", "t", "y", "p", "\"">>), Leaf("Colon", <<":">>), Leaf("Space", <<" ">>), Inner("ImportItems", <<Leaf("Ident", <<"b", "a", "b">>)>>)>>)>>)

\* #include [ab]  (an include whose source is a content block holding text)
DocInclude ==
    Inner("Markup", <<Leaf("Hash", <<"#">>),
        Inner("ModuleInclude", <<Leaf("Include", <<"i", "n", "c", "l", "u", "d", "e">>), Leaf("Space", <<" ">>), Inner("ContentBlock", <<Leaf("LeftBracket", <<"[">>), Inner("Markup", <<Leaf("Text", <<"a", "b">>)>>), Leaf("RightBracket", <<"]">>)>>)>>)>>)

\* http://a
DocLink ==
    Inner("Markup", <<Leaf("Link", <<"h", "t", "t", "p", ":", "/", "/", "a">>)>>)

\* *ab*
DocStrong ==
    Inner("Markup", <<Inner("Strong", <<Leaf("Star", <<"*">>), Inner("Markup", <<Leaf("Text", <<"a", "b">>)>>), Leaf("Star", <<"*">>)>>)>>)

\* ab */  (a diagnostic: unexpected end of block comment)
DocErrorComment ==
    Inner("Markup", <<Leaf("Text", <<"a", "b">>),
        Leaf("Space", <<" ">>),
        Leaf("Error", <<"*", "/">>)>>)

\* #f("ab)  (a diagnostic below the root: unclosed string)
DocErrorStr ==
    Inner("Markup", <<Leaf("Hash", <<"#">>),
        Inner("FuncCall", <<Leaf("Ident", <<"f">>), Inner("Args", <<Leaf("LeftParen", <<"(">>), Leaf("Error", <<"\"", "a", "b", ")">>)>>)>>)>>)

Documents ==
    {DocWords,
     DocScripts,
     DocMixed,
     DocEmpty,
     DocLineComment,
     DocLineCommentEmpty,
     DocBlockComment,
     DocBlockCommentEmpty,
     DocBlockCommentNested,
     DocBlockCommentOpen,
     DocBlockCommentOpenShort,
     DocBlockCommentOpenWide,
     DocRawInline,
     DocRawBlock,
     DocRawBlockNoLang,
     DocRawLong,
     DocRawEmpty,
     DocStr,
     DocStrEmpty,
     DocImport,
     DocInclude,
     DocLink,
     DocStrong,
     DocErrorComment,
     DocErrorStr}

\* typst_syntax::parse
Parse(text) == CHOOSE document \in Documents : SourceText(document) = text

(***************************************************************************)
(* The wordlists and the language codes the program is run with.           *)
(***************************************************************************)
Line(word) == word \o <<"\n">>

\* sixteen lines of one pattern, two of them with more than a line feed to
\* trim
WordlistFull ==
    Repeat(Line(<<"b", "c">>), MINIMUM_WORD_COUNT - 2)
        \o <<<<"b", "c", "\r", "\n">>, <<"b", "c", " ", "\n">>>>

\* one line short of the threshold, in the pattern bucket and the length bucket
WordlistSparse == Repeat(Line(<<"b", "c">>), MINIMUM_WORD_COUNT - 1)

\* a length bucket at the threshold made of two pattern buckets below it
WordlistSplit == WordlistSparse \o <<Line(<<"a", "b">>)>>

\* a pattern bucket at the threshold and one more word of the same length
WordlistMixed == WordlistFull \o <<Line(<<"a", "b">>)>>

\* words of digits, and one word with an apostrophe
WordlistDigits ==
    Repeat(Line(<<"1", "2">>), MINIMUM_WORD_COUNT - 1) \o <<Line(<<"o", "'">>)>>

\* [given: a wordlist path was passed, file: the lines of the file, None
\* when it cannot be opened]
Wordlists ==
    {[given |-> FALSE, file |-> None],
     [given |-> TRUE, file |-> None],
     [given |-> TRUE, file |-> Some(<<>>)],
     [given |-> TRUE, file |-> Some(WordlistFull)],
     [given |-> TRUE, file |-> Some(WordlistSparse)],
     [given |-> TRUE, file |-> Some(WordlistSplit)],
     [given |-> TRUE, file |-> Some(WordlistMixed)],
     [given |-> TRUE, file |-> Some(WordlistDigits)]}

Languages == {English, German, <<"x", "x">>, <<"e", "n", "g">>, <<"U+00E9">>}

(***************************************************************************)
(* The state of one run of the program.                                    *)
(***************************************************************************)
VARIABLES
    args,       \* the parsed command line: in_place, wordlist, language, aggressive
    input,      \* the document handed to the run, None when it cannot be read
    disk,       \* target: the file of --in-place; wordlist: the file of --wordlist
    stdout,     \* the chunks written to standard output
    writes,     \* the number of writes of the output made so far
    pc,         \* the position in main
    code,       \* main's code
    context,    \* main's context, None before build_context returned
    syntax,     \* main's syntax, None before the parser returned
    output,     \* main's output buffer
    stack,      \* the nodes mutilate has still to visit, in document order
    cur,        \* the call of mutilate_text under way, None outside of one
    log         \* what the walker did at each node it is done with

vars == <<args, input, disk, stdout, writes, pc, code, context, syntax, output, stack, cur, log>>

Init ==
    \E document \in Documents, in_place \in BOOLEAN, aggressive \in BOOLEAN,
       language \in Languages, wordlist \in Wordlists, readable \in BOOLEAN :
        /\ args = [in_place |-> in_place, wordlist |-> wordlist.given,
                   language |-> language, aggressive |-> aggressive]
        /\ input = IF readable THEN Some(SourceText(document)) ELSE None
        /\ disk = [target |-> IF in_place THEN input ELSE None, wordlist |-> wordlist.file]
        /\ stdout = <<>>
        /\ writes = 0
        /\ pc = "start"
        /\ code = <<>>
        /\ context = None
        /\ syntax = None
        /\ output = <<>>
        /\ stack = <<>>
        /\ cur = None
        /\ log = <<>>

(***************************************************************************)
(* main, up to the walk.                                                   *)
(***************************************************************************)
\* std::fs::read_to_string(path)? or stdin().read_to_string(&mut code)?
ReadInput ==
    /\ pc = "start"
    /\ LET source == IF args.in_place THEN disk.target ELSE input
       IN  IF source = None
           THEN pc' = "err" /\ code' = code
           ELSE pc' = "read" /\ code' = source[1]
    /\ UNCHANGED <<args, input, disk, stdout, writes, context, syntax, output, stack, cur, log>>

\* build_context(&args)?
BuildContext ==
    /\ pc = "read"
    /\ IF StrLen(args.language) # 2 \/ LangFromIso(args.language) = None
       THEN pc' = "panic" /\ context' = context
       ELSE IF args.wordlist /\ disk.wordlist = None
       THEN pc' = "err" /\ context' = context
       ELSE LET language == LangFromIso(args.language)[1]
                lines == IF args.wordlist THEN disk.wordlist[1] ELSE <<>>
            IN  /\ pc' = "context"
                /\ context' = Some(NewContext(args.aggressive, language,
                                              IndexLines(EmptyIndex, lines, language)))
    /\ UNCHANGED <<args, input, disk, stdout, writes, code, syntax, output, stack, cur, log>>

\* the diagnostics right below the root alone
Errors_TopLevel(node) ==
    {node.children[i] : i \in {j \in DOMAIN node.children : node.children[j].kind = "Error"}}

RECURSIVE Errors(_)
\* syntax.errors(): the diagnostics of the tree
Errors(node) ==
    IF node.kind = "Error" THEN {node}
    ELSE UNION {Errors(node.children[i]) : i \in DOMAIN node.children}

\* typst_syntax::parse(&code), and the return on a syntax error
ParseCode ==
    /\ pc = "context"
    /\ syntax' = Some(Parse(code))
    /\ IF Errors(Parse(code)) # {}
       THEN pc' = "done" /\ stack' = stack
       ELSE pc' = "walk" /\ stack' = <<Parse(code)>>
    /\ UNCHANGED <<args, input, disk, stdout, writes, code, context, output, cur, log>>

(***************************************************************************)
(* write_node and the arms of mutilate.                                    *)
(***************************************************************************)
\* the text of the node itself
WriteNode_OwnText(node) == node.text

RECURSIVE WriteNode(_)
\* write_node: what it writes to the output
WriteNode(node) ==
    IF node.children # <<>>
    THEN Concat([i \in DOMAIN node.children |-> WriteNode(node.children[i])])
    ELSE node.text

\* SyntaxKind::Str, whatever the flag
StrArm_Always(node, ctx) == node.kind = "Str"

\* SyntaxKind::Str if context.aggressive
StrArm(node, ctx) == node.kind = "Str" /\ ctx.aggressive

\* the arm of the match of mutilate that takes the node: the first that fits
Arm(node, ctx) ==
    IF node.kind = "Text" THEN "Text"
    ELSE IF node.kind = "LineComment" THEN "LineComment"
    ELSE IF node.kind = "BlockComment" THEN "BlockComment"
    ELSE IF StrArm(node, ctx) THEN "Str"
    ELSE IF node.kind = "Raw" THEN "Raw"
    ELSE IF node.kind = "Link" THEN "Link"
    ELSE IF node.kind \in {"ModuleInclude", "ModuleImport"} THEN "Module"
    ELSE IF node.children # <<>> THEN "Children"
    ELSE "Leaf"

BACKTICK == "U+0060"

RECURSIVE LeadingBackticks(_)
\* syntax.text().split(|c| c != backtick).next().unwrap()
LeadingBackticks(text) ==
    IF text # <<>> /\ Head(text) = BACKTICK
    THEN <<BACKTICK>> \o LeadingBackticks(Tail(text))
    ELSE <<>>

\* is_id_start and is_id_continue of typst_syntax
IsIdStart(c) == IsAlphabetic(c) \/ c = "_"
IsIdContinue(c) == IsAlphabetic(c) \/ c \in Range(CHARSET_DIGITS) \/ c \in {"_", "-"}

RECURSIVE EatIdContinue(_)
EatIdContinue(text) ==
    IF text # <<>> /\ IsIdContinue(Head(text))
    THEN <<Head(text)>> \o EatIdContinue(Tail(text))
    ELSE <<>>

\* raw.lang(): the identifier right after a fence of three backticks or more
RawLang(text) ==
    LET inner == TrimStartBackticks(text)
    IN  IF StartsWith(text, <<BACKTICK, BACKTICK, BACKTICK>>)
           /\ inner # <<>> /\ IsIdStart(Head(inner))
        THEN Some(<<Head(inner)>> \o EatIdContinue(Tail(inner)))
        ELSE None

\* The parts of a node whose text goes through mutilate_text: pre is written
\* before the call, content is the argument of the call (None when computing
\* it panics, and then pre is what was written before the panic), post is
\* written after the call.
Parts(pre, content, post) == [pre |-> pre, content |-> content, post |-> post]

TextParts(text) == Parts(<<>>, Some(text), <<>>)

LineCommentParts(text) ==
    Parts(<<"/", "/">>, ByteSlice(text, 2, StrLen(text)), <<>>)

BlockCommentParts(text) ==
    Parts(<<"/", "*">>, ByteSlice(text, 2, StrLen(text) - 2), <<"*", "/">>)

StrParts(text) ==
    Parts(<<"\"">>, ByteSlice(text, 1, StrLen(text) - 1), <<"\"">>)

RawParts(text) ==
    LET backticks == LeadingBackticks(text)
        body == StripSuffix(TrimStartBackticks(text), backticks)
        lang == RawLang(text)
    IN  IF body = None THEN Parts(backticks, None, backticks)
        ELSE IF lang = None THEN Parts(backticks, body, backticks)
        ELSE IF StripPrefix(body[1], lang[1]) = None THEN Parts(backticks, None, backticks)
        ELSE Parts(backticks \o lang[1], StripPrefix(body[1], lang[1]), backticks)

(***************************************************************************)
(* mutilate: the walk.  The recursion of mutilate is the stack of the      *)
(* nodes still to visit; a node whose text goes to mutilate_text opens the *)
(* call cur, which the steps of the tokenizer then carry out.              *)
(***************************************************************************)
Entry(node, arm, parts, out, words, panicked) ==
    [node |-> node, arm |-> arm, pre |-> parts.pre, content |-> parts.content,
     post |-> parts.post, out |-> out, words |-> words, panicked |-> panicked]

Walking == pc = "walk" /\ cur = None /\ stack # <<>>

\* the arms that write pre, call mutilate_text(content) and write post
Open(arm, parts) ==
    /\ output' = output \o parts.pre
    /\ stack' = Tail(stack)
    /\ IF parts.content = None
       THEN /\ pc' = "panic"
            /\ cur' = cur
            /\ log' = Append(log, Entry(Head(stack), arm, parts, parts.pre, <<>>, TRUE))
       ELSE /\ pc' = pc
            /\ cur' = Some([node |-> Head(stack), arm |-> arm, parts |-> parts,
                            remaining |-> parts.content[1], out |-> parts.pre,
                            words |-> <<>>])
            /\ log' = log
    /\ UNCHANGED <<args, input, disk, stdout, writes, code, context, syntax>>

VisitText ==
    /\ Walking
    /\ Arm(Head(stack), context[1]) = "Text"
    /\ Open("Text", TextParts(Head(stack).text))

VisitLineComment ==
    /\ Walking
    /\ Arm(Head(stack), context[1]) = "LineComment"
    /\ Open("LineComment", LineCommentParts(Head(stack).text))

VisitBlockComment ==
    /\ Walking
    /\ Arm(Head(stack), context[1]) = "BlockComment"
    /\ Open("BlockComment", BlockCommentParts(Head(stack).text))

VisitStr ==
    /\ Walking
    /\ Arm(Head(stack), context[1]) = "Str"
    /\ Open("Str", StrParts(Head(stack).text))

VisitRaw ==
    /\ Walking
    /\ Arm(Head(stack), context[1]) = "Raw"
    /\ Open("Raw", RawParts(Head(stack).text))

VisitLink ==
    /\ Walking
    /\ Arm(Head(stack), context[1]) = "Link"
    /\ Open("Link", TextParts(Head(stack).text))

\* the arms that end in write_node(syntax, output)
Echo(arm) ==
    LET node == Head(stack)
        out == WriteNode(node)
    IN  /\ output' = output \o out
        /\ stack' = Tail(stack)
        /\ log' = Append(log, Entry(node, arm, Parts(<<>>, None, <<>>), out, <<>>, FALSE))
        /\ UNCHANGED <<args, input, disk, stdout, writes, pc, code, context, syntax, cur>>

VisitModule ==
    /\ Walking
    /\ Arm(Head(stack), context[1]) = "Module"
    /\ Echo("Module")

VisitLeaf ==
    /\ Walking
    /\ Arm(Head(stack), context[1]) = "Leaf"
    /\ Echo("Leaf")

\* for child in syntax.children() { mutilate(child, context, output)?; }
VisitChildren ==
    /\ Walking
    /\ Arm(Head(stack), context[1]) = "Children"
    /\ stack' = Head(stack).children \o Tail(stack)
    /\ UNCHANGED <<args, input, disk, stdout, writes, pc, code, context, syntax, output, cur, log>>

(***************************************************************************)
(* mutilate_text: the tokenizer.                                           *)
(***************************************************************************)
\* let next_remaining = remaining.trim_start_matches(split)
NextRemaining(remaining) == TrimStartSplit(remaining)

\* next_remaining.split(split).find(|s| !s.is_empty())
NextWord(next_remaining) == FindNonEmpty(SplitSplit(next_remaining))

\* &remaining[..remaining.len() - next_remaining.len()]
Whitespace(remaining, next_remaining) ==
    ByteSlice(remaining, 0, StrLen(remaining) - StrLen(next_remaining))[1]

\* &next_remaining[word.len()..]
AfterWord(next_remaining, word) ==
    ByteSlice(next_remaining, StrLen(word), StrLen(next_remaining))[1]

\* one turn of the loop: the separators up to the next word, then the word
MutilateTextWord ==
    /\ pc = "walk"
    /\ cur # None
    /\ LET call == cur[1]
           next_remaining == NextRemaining(call.remaining)
           found == NextWord(next_remaining)
       IN  /\ found # None
           /\ LET word == found[1]
                  whitespace == Whitespace(call.remaining, next_remaining)
              IN  \E result \in MutilateWord(word, context[1]) :
                    /\ output' = output \o whitespace \o result.repl
                    /\ cur' = Some([call EXCEPT
                            !.remaining = AfterWord(next_remaining, word),
                            !.out = @ \o whitespace \o result.repl,
                            !.words = Append(@, [whitespace |-> whitespace, word |-> word,
                                                 repl |-> result.repl,
                                                 branch |-> result.branch,
                                                 draws |-> result.draws])])
    /\ UNCHANGED <<args, input, disk, stdout, writes, pc, code, context, syntax, stack, log>>

\* the break of the loop: the separators left over, and what the arm writes
\* after the call
MutilateTextEnd ==
    /\ pc = "walk"
    /\ cur # None
    /\ LET call == cur[1]
       IN  /\ NextWord(NextRemaining(call.remaining)) = None
           /\ output' = output \o call.remaining \o call.parts.post
           /\ cur' = None
           /\ log' = Append(log, Entry(call.node, call.arm, call.parts,
                                       call.out \o call.remaining \o call.parts.post,
                                       call.words, FALSE))
    /\ UNCHANGED <<args, input, disk, stdout, writes, pc, code, context, syntax, stack>>

(***************************************************************************)
(* main, after the walk.                                                   *)
(***************************************************************************)
\* std::fs::write(path, &output)? or stdout().write_all(&output)?
WriteOutput ==
    /\ pc = "walk"
    /\ cur = None
    /\ stack = <<>>
    /\ IF args.in_place
       THEN disk' = [disk EXCEPT !.target = Some(output)] /\ stdout' = stdout
       ELSE stdout' = Append(stdout, output) /\ disk' = disk
    /\ writes' = writes + 1
    /\ pc' = "done"
    /\ UNCHANGED <<args, input, code, context, syntax, output, stack, cur, log>>

Next ==
    \/ ReadInput
    \/ BuildContext
    \/ ParseCode
    \/ VisitText
    \/ VisitLineComment
    \/ VisitBlockComment
    \/ VisitStr
    \/ VisitRaw
    \/ VisitLink
    \/ VisitModule
    \/ VisitLeaf
    \/ VisitChildren
    \/ MutilateTextWord
    \/ MutilateTextEnd
    \/ WriteOutput

Spec == Init /\ [][Next]_vars

(***************************************************************************)
(* What the properties are stated with.  None of it is used by the model   *)
(* above.                                                                  *)
(***************************************************************************)
Entries == Range(log)

\* every call of mutilate_word made so far
WordRecords ==
    UNION {Range(e.words) : e \in Entries}
        \cup (IF cur = None THEN {} ELSE Range(cur[1].words))

\* the entries of the nodes whose text went through mutilate_text
TextEntries == {e \in Entries : e.content # None /\ ~e.panicked}

\* the maximal runs of a text, in order: word runs (alphanumeric characters)
\* and separator runs (all others)
RunEnd(s) ==
    CHOOSE k \in 1..Len(s) :
        /\ \A i \in 1..k : IsAlphanumeric(s[i]) = IsAlphanumeric(s[1])
        /\ k = Len(s) \/ IsAlphanumeric(s[k + 1]) # IsAlphanumeric(s[1])

RECURSIVE Runs(_)
Runs(s) ==
    IF s = <<>> THEN <<>>
    ELSE <<[word |-> IsAlphanumeric(s[1]), text |-> SubSeq(s, 1, RunEnd(s))]>>
            \o Runs(SubSeq(s, RunEnd(s) + 1, Len(s)))

\* the number of word runs among the first j runs
WordIndex(runs, j) == Cardinality({i \in 1..j : runs[i].word})

\* the byte offset of run j in the text
RunOffset(runs, j) == StrLen(Concat([i \in 1..(j - 1) |-> runs[i].text]))

\* the text with its k-th word run replaced by what the k-th call wrote
Rendered(content, words) ==
    LET runs == Runs(content)
    IN  Concat([j \in DOMAIN runs |->
            IF runs[j].word THEN words[WordIndex(runs, j)].repl ELSE runs[j].text])

\* the calls of mutilate_word are the word runs of the text, in order, and
\* the output of mutilate_text is the text with each word run replaced
Tokenized(content, words, out) ==
    LET runs == Runs(content)
    IN  /\ Len(words) = WordIndex(runs, Len(runs))
        /\ \A j \in DOMAIN runs : runs[j].word => words[WordIndex(runs, j)].word = runs[j].text
        /\ out = Rendered(content, words)

\* what an entry wrote between pre and post
Middle(e) == SubSeq(e.out, Len(e.pre) + 1, Len(e.out) - Len(e.post))

\* by how many bytes the replacements of the word runs before run j are
\* longer than the words
Shift(runs, words, j) ==
    StrLen(Concat([i \in 1..(j - 1) |->
                IF runs[i].word THEN words[WordIndex(runs, i)].repl ELSE <<>>]))
    - StrLen(Concat([i \in 1..(j - 1) |-> IF runs[i].word THEN runs[i].text ELSE <<>>]))

\* the wordlist of the run, as the words of its lines
WordlistWords ==
    IF args.wordlist /\ disk.wordlist # None
    THEN [i \in DOMAIN disk.wordlist[1] |-> TrimEnd(disk.wordlist[1][i])]
    ELSE <<>>

ActiveLanguage == context[1].language

\* how many words of the wordlist have the pattern, the length, of a word
PatternCount(word) ==
    Cardinality({i \in DOMAIN WordlistWords :
        Hyphenation(WordlistWords[i], ActiveLanguage) = Hyphenation(word, ActiveLanguage)})

LengthCount(word) ==
    Cardinality({i \in DOMAIN WordlistWords : Len(WordlistWords[i]) = Len(word)})

IsDecimalNumber(word) == \A i \in DOMAIN word : word[i] \in Range(CHARSET_DIGITS)

IsNumericWord(word) == \A i \in DOMAIN word : IsNumeric(word[i])

RECURSIVE HasDiagnostic(_)
HasDiagnostic(node) ==
    \/ node.kind = "Error"
    \/ \E i \in DOMAIN node.children : HasDiagnostic(node.children[i])

RECURSIVE NodesOfKind(_, _)
\* the nodes of the kinds that the walker reaches: those below no module
\* include or import
NodesOfKind(node, kinds) ==
    (IF node.kind \in kinds THEN {node} ELSE {})
        \cup (IF node.kind \in {"ModuleInclude", "ModuleImport"} THEN {}
              ELSE UNION {NodesOfKind(node.children[i], kinds) : i \in DOMAIN node.children})

RECURSIVE Descendants(_)
Descendants(node) ==
    UNION {{node.children[i]} \cup Descendants(node.children[i]) : i \in DOMAIN node.children}

\* the walk is over and the output written
Finished == pc = "done" /\ writes = 1

\* when the walk is over, every node of the kinds has its entry
AllReached(kinds) ==
    Finished => \A node \in NodesOfKind(syntax[1], kinds) : \E e \in Entries : e.node = node

(***************************************************************************)
(* The properties.                                                         *)
(***************************************************************************)
\* C1 as stated: every separator run of a text given to the tokenizer is in
\* the output with the same bytes at the same byte offset.
C1_SeparatorsInPlace ==
    \A e \in TextEntries :
        LET runs == Runs(e.content[1])
        IN  \A j \in DOMAIN runs :
                ~runs[j].word =>
                    ByteSlice(Middle(e), RunOffset(runs, j),
                              RunOffset(runs, j) + StrLen(runs[j].text)) = Some(runs[j].text)

\* C1 (amended): the output of the tokenizer is its text with every word run
\* replaced by what the word mutilator wrote for it and every separator run
\* kept byte for byte, in the same order; a separator run starts at its byte
\* offset in the input shifted by the difference in byte length between the
\* replacements and the words before it.
C1_ShapePreserved ==
    \A e \in TextEntries :
        LET runs == Runs(e.content[1])
        IN  /\ Tokenized(e.content[1], e.words, Middle(e))
            /\ e.out = e.pre \o Middle(e) \o e.post
            /\ \A j \in DOMAIN runs :
                    ~runs[j].word =>
                        LET at == RunOffset(runs, j) + Shift(runs, e.words, j)
                        IN  ByteSlice(Middle(e), at, at + StrLen(runs[j].text))
                                = Some(runs[j].text)

\* C1 witness: a text with a separator run after a word whose replacement
\* has another byte length than the word.
C1_Witness ==
    \E e \in TextEntries :
        LET runs == Runs(e.content[1])
        IN  \E j \in DOMAIN runs : ~runs[j].word /\ Shift(runs, e.words, j) # 0

\* the run has a configuration error or its document a parse diagnostic
Faulty ==
    \/ input = None
    \/ StrLen(args.language) # 2
    \/ args.language \notin {English, German}
    \/ args.wordlist /\ disk.wordlist = None
    \/ HasDiagnostic(Parse(input[1]))

\* C2: the output is written only after the input was read, the context
\* built, the parser returned no diagnostic and the walk ended; until then,
\* and for good when there is a diagnostic or a configuration error, nothing
\* is written and the file of --in-place keeps its content.
C2_AllOrNothing ==
    /\ writes > 0 =>
        /\ pc = "done" /\ writes = 1
        /\ input # None /\ code = input[1]
        /\ context # None
        /\ syntax # None /\ ~HasDiagnostic(syntax[1])
        /\ stack = <<>> /\ cur = None
        /\ IF args.in_place THEN disk.target = Some(output) /\ stdout = <<>>
           ELSE stdout = <<output>>
    /\ writes = 0 =>
        /\ stdout = <<>>
        /\ disk.target = (IF args.in_place THEN input ELSE None)
    /\ Faulty => writes = 0 /\ pc # "walk"

\* C2 witness: a run on a file in place that ended on a parse diagnostic,
\* the file untouched.
C2_Witness ==
    /\ pc = "done"
    /\ args.in_place
    /\ syntax # None /\ HasDiagnostic(syntax[1])
    /\ writes = 0 /\ disk.target = input

\* C3: a module include or import node is written as its source text, with
\* no call of the word mutilator (and so no draw), whatever the flag and
\* whatever is below the node; and the walker visits nothing below it.
C3_ModuleVerbatim ==
    /\ \A e \in Entries :
            e.node.kind \in {"ModuleInclude", "ModuleImport"} =>
                /\ e.out = SourceText(e.node)
                /\ e.words = <<>>
                /\ ~e.panicked
    /\ AllReached({"ModuleInclude", "ModuleImport"})
    /\ \A e \in Entries, f \in Entries :
            e.node.kind \in {"ModuleInclude", "ModuleImport"} => f.node \notin Descendants(e.node)

\* C3 witness: in aggressive mode, an import or include with a string or a
\* text below it was written.
C3_Witness ==
    \E e \in Entries :
        /\ e.node.kind \in {"ModuleInclude", "ModuleImport"}
        /\ context[1].aggressive
        /\ \E d \in Descendants(e.node) : d.kind \in {"Str", "Text"}

\* C4: with aggressive mode off a string node is written as its text, with
\* no call of the word mutilator; with aggressive mode on a string node the
\* walker reaches is written as its opening quote, its interior tokenized
\* and mutilated, and its closing quote.
C4_StrFollowsFlag ==
    /\ \A e \in Entries :
            e.node.kind = "Str" =>
                IF context[1].aggressive
                THEN /\ ~e.panicked
                     /\ e.content # None
                     /\ e.pre = <<Head(e.node.text)>> /\ e.pre = <<"\"">>
                     /\ e.post = <<e.node.text[Len(e.node.text)]>> /\ e.post = <<"\"">>
                     /\ e.pre \o e.content[1] \o e.post = e.node.text
                     /\ Tokenized(e.content[1], e.words, Middle(e))
                     /\ e.out = e.pre \o Middle(e) \o e.post
                ELSE e.out = e.node.text /\ e.words = <<>>
    /\ AllReached({"Str"})

\* C4 witness: a string whose interior was mutilated.
C4_Witness ==
    \E e \in Entries :
        /\ e.node.kind = "Str"
        /\ context[1].aggressive
        /\ e.words # <<>>
        /\ Middle(e) # e.content[1]

\* C5: a replacement is drawn from a bucket only if the bucket holds at least
\* 16 words; a word that reaches the wordlist lookup takes the pattern bucket
\* when it holds 16 words or more, otherwise the length bucket when that
\* holds 16 or more, otherwise the synthetic generator.
C5_ThresholdFallback ==
    \A w \in WordRecords :
        /\ w.branch = "hyphenation" =>
            /\ PatternCount(w.word) >= MINIMUM_WORD_COUNT
            /\ \E i \in DOMAIN WordlistWords :
                /\ WordlistWords[i] = w.repl
                /\ Hyphenation(w.repl, ActiveLanguage) = Hyphenation(w.word, ActiveLanguage)
        /\ w.branch = "length" =>
            /\ LengthCount(w.word) >= MINIMUM_WORD_COUNT
            /\ \E i \in DOMAIN WordlistWords :
                WordlistWords[i] = w.repl /\ Len(w.repl) = Len(w.word)
        /\ ~IsNumericWord(w.word) =>
            w.branch = IF PatternCount(w.word) >= MINIMUM_WORD_COUNT THEN "hyphenation"
                       ELSE IF LengthCount(w.word) >= MINIMUM_WORD_COUNT THEN "length"
                       ELSE "synthetic"

\* C5 witness: a word whose pattern bucket holds words, but fewer than 16,
\* was replaced from its length bucket.
C5_Witness ==
    \E w \in WordRecords :
        /\ w.branch = "length"
        /\ PatternCount(w.word) > 0
        /\ PatternCount(w.word) < MINIMUM_WORD_COUNT

\* C6: the replacement of a word that is not numeric and whose pattern has
\* 16 words or more in the wordlist is a word of the wordlist with the
\* pattern of the original; the index holds every word of the wordlist under
\* its own pattern, in the order of the wordlist, and stays as it was built.
C6_SignatureConsistent ==
    /\ \A w \in WordRecords :
            (~IsNumericWord(w.word) /\ PatternCount(w.word) >= MINIMUM_WORD_COUNT) =>
                /\ \E i \in DOMAIN WordlistWords : WordlistWords[i] = w.repl
                /\ Hyphenation(w.repl, ActiveLanguage) = Hyphenation(w.word, ActiveLanguage)
    /\ context # None =>
        /\ \A key \in DOMAIN context[1].by_hyphenation :
                context[1].by_hyphenation[key]
                    = SelectSeq(WordlistWords,
                                LAMBDA word : Hyphenation(word, ActiveLanguage) = key)
        /\ \A word \in Range(WordlistWords) :
                Hyphenation(word, ActiveLanguage) \in DOMAIN context[1].by_hyphenation

\* C6 witness: a word was replaced from its pattern bucket, in a wordlist
\* that has words of the same length and another pattern.
C6_Witness ==
    \E w \in WordRecords :
        /\ w.branch = "hyphenation"
        /\ LengthCount(w.word) > PatternCount(w.word)

\* the wordlist is empty: none was given, or the file has no line
EmptyWordlist == WordlistWords = <<>>

C8_DigitCollapse ==
    \A w \in WordRecords :
        IsDecimalNumber(w.word) =>
            /\ Len(w.repl) = 1
            /\ w.repl[1] \in Range(CHARSET_DIGITS)
            /\ w.draws = 1
            /\ w.branch = "digit"

\* C8 witness: a number of two digits was replaced while the wordlist held
\* 16 words of its pattern.
C8_Witness ==
    \E w \in WordRecords :
        /\ IsDecimalNumber(w.word)
        /\ Len(w.word) = 2
        /\ PatternCount(w.word) >= MINIMUM_WORD_COUNT

\* the entry wrote its delimiters as the node has them and, between them,
\* the interior of the node tokenized and mutilated
Delimited(e) ==
    /\ ~e.panicked
    /\ e.content # None
    /\ e.pre \o e.content[1] \o e.post = e.node.text
    /\ Tokenized(e.content[1], e.words, Middle(e))
    /\ e.out = e.pre \o Middle(e) \o e.post

\* C9: the walker gets through every block comment and line comment and
\* writes its delimiters as the input has them and its whole interior
\* tokenized and mutilated.
C9_CommentEmission ==
    /\ \A e \in Entries : e.node.kind \in {"BlockComment", "LineComment"} => Delimited(e)
    /\ AllReached({"BlockComment", "LineComment"})

\* C10: the walker gets through every raw node and writes its opening fence,
\* its language tag when it has one, its body tokenized and mutilated and a
\* closing fence of as many backticks as the opening one.
C10_RawEmission ==
    /\ \A e \in Entries :
            e.node.kind = "Raw" =>
                /\ Delimited(e)
                /\ e.post = LeadingBackticks(e.node.text)
                /\ \E lang \in {<<>>} \cup {RawLang(e.node.text)[i] : i \in DOMAIN RawLang(e.node.text)} :
                        e.pre = e.post \o lang
    /\ AllReached({"Raw"})

=============================================================================
